---- MODULE Spec2Model ----
(***************************************************************************)
(* A model of angr's Surveyor (angr/surveyor.py): the run loop, one step   *)
(* (tick, filter, spill), the sequential and the thread-pool tick, and the *)
(* process-wide STOP_RUNS / PAUSE_RUNS flags.                              *)
(*                                                                         *)
(* A path is identified by its position in the exploration tree: the seed  *)
(* number followed by the successor indices taken, <<2, 1>> being the      *)
(* first successor of the second seed.                                     *)
(***************************************************************************)
EXTENDS Integers, Sequences, FiniteSets, TLC

\* ---- bounds of the model ------------------------------------------------
MaxSeeds == 2            \* most exits handed to the constructor
MaxSucc == 2             \* most successors one continue_path() returns
MaxDepth == 2            \* paths of this length have no successors
MaxN == 1                \* largest step budget n handed to run()
MaxActiveArg == 2        \* largest max_active handed to the constructor
MaxConcurrencyArg == 2   \* largest max_concurrency handed to the constructor
MaxFaults == 2           \* most calls that end in a collaborator fault
CpuCount == 2            \* what multiprocessing.cpu_count() returns

VARIABLES
    \* configuration, fixed by __init__
    _max_active, _max_concurrency, _pickle_paths, _save_deadends,
    nseeds,          \* number of exits the Surveyor was started on
    prog,            \* the collaborator: what continue_path() does to a path
    \* the path lists and the step counter
    active, deadended, spilled, errored, suspended, _current_step,
    \* the module globals
    STOP_RUNS, PAUSE_RUNS,
    \* the call in progress
    pc,              \* where the driver thread is
    n,               \* run()'s local n: None or Some(k)
    \* the thread-pool tick
    futures,         \* future_to_path: per submitted future its path and its state,
                     \* "pending" (queued or running), "done", or "collected" by
                     \* the as_completed loop
    new_active,      \* tick()'s local new_active
    raised,          \* future.result() has raised inside the with block
    \* observation
    calls,           \* suspend / resume calls made on paths, in order
    pre,             \* the lists as they were when the current tick started
    last_exit,       \* how the last call ended; inside run(): "resuming" when it
                     \* follows a stopped run() with the flag cleared, else "none"
    faults,          \* number of calls that ended in a fault
    stop_at,         \* _current_step when STOP_RUNS became true inside a step of run()
    entry            \* inside run(): the argument n and _current_step at the call,
                     \* and whether STOP_RUNS has been true since the call

cfg_vars == <<_max_active, _max_concurrency, _pickle_paths, _save_deadends, nseeds, prog>>
list_vars == <<active, deadended, spilled, errored, suspended>>
pool_vars == <<futures, new_active, raised>>
vars == <<cfg_vars, list_vars, _current_step, STOP_RUNS, PAUSE_RUNS, pc, n,
          pool_vars, calls, pre, last_exit, faults, stop_at, entry>>

\* ---- Python values ------------------------------------------------------
None == <<>>
Some(x) == <<x>>

Min(a, b) == IF a <= b THEN a ELSE b
Max(a, b) == IF a >= b THEN a ELSE b

\* p in s, for a list s
InList(p, s) == \E i \in DOMAIN s : s[i] = p

\* s[:k] with Python's meaning of a negative k
slice_to(s, k) ==
    LET e == IF k >= 0 THEN Min(k, Len(s)) ELSE Max(Len(s) + k, 0)
    IN SubSeq(s, 1, e)

\* s[k:] with Python's meaning of a negative k
slice_from(s, k) ==
    LET b == IF k >= 0 THEN Min(k, Len(s)) ELSE Max(Len(s) + k, 0)
    IN SubSeq(s, b + 1, Len(s))

\* ---- the collaborator (angr.path.Path) ----------------------------------
\* What one advance does: raise, or return nsucc successors and leave error
\* exits on the path or not.
Outcomes ==
    {[fault |-> TRUE, err |-> FALSE, nsucc |-> 0]} \cup
    {[fault |-> FALSE, err |-> e, nsucc |-> k] : e \in BOOLEAN, k \in 0..MaxSucc}

\* The collaborator treats a first successor (or first seed) one way and
\* every other path another way.
label(p) == IF p[Len(p)] = 1 THEN "first" ELSE "rest"

Programs == [{"first", "rest"} -> Outcomes]

\* p.continue_path(): deterministic in p; successors are new paths.
continue_path(p) ==
    LET o == prog[label(p)]
        k == IF Len(p) >= MaxDepth THEN 0 ELSE o.nsucc
    IN [fault |-> o.fault,
        errored |-> o.err,
        successors |-> [i \in 1..k |-> Append(p, i)]]

\* tick_path handing on only the first successor
tick_path_first_only(p) ==
    [continue_path(p) EXCEPT !.successors = SubSeq(@, 1, Min(1, Len(@)))]

\* Surveyor.tick_path
tick_path(p) == continue_path(p)

\* entries of deadended: the path itself, or only its backtrace
FullPath(p) == <<"path", p>>
Backtrace(p) == <<"backtrace", p>>

\* ---- suspend / resume ---------------------------------------------------
SuspendCall(p) == [op |-> "suspend", path |-> p, do_pickle |-> _pickle_paths]
ResumeCall(p) == [op |-> "resume", path |-> p, do_pickle |-> FALSE]

\* suspend_path leaving alone a path the log already shows suspended last
suspend_path_once(p, log) ==
    IF Len(log) > 0 /\ log[Len(log)] = SuspendCall(p) THEN log ELSE Append(log, SuspendCall(p))

\* Surveyor.suspend_path: the log after p.suspend(do_pickle=self._pickle_paths)
suspend_path(p, log) == Append(log, SuspendCall(p))

\* ---- done ---------------------------------------------------------------
done(act) == Len(act) = 0

\* ---- filter -------------------------------------------------------------
\* a filter_path that lets no path through
filter_path_none(p) == FALSE

filter_path(p) == TRUE

filter_paths(paths) == SelectSeq(paths, filter_path)

\* ---- spill --------------------------------------------------------------
path_comparator(a, b) == 0

\* list.sort(cmp=...): a stable sort, here by insertion from the left
RECURSIVE sort_cmp(_)
sort_cmp(s) ==
    IF Len(s) <= 1 THEN s
    ELSE LET front == sort_cmp(SubSeq(s, 1, Len(s) - 1))
             x == s[Len(s)]
             after == Cardinality({i \in DOMAIN front : path_comparator(x, front[i]) < 0})
             at == Len(front) - after
         IN SubSeq(front, 1, at) \o <<x>> \o SubSeq(front, at + 1, Len(front))

prioritize_paths(paths) == sort_cmp(paths)

\* spill_paths with the second slice starting one entry early
spill_paths_overlap(act, sp) ==
    LET prioritized == prioritize_paths(act \o sp)
    IN <<slice_to(prioritized, _max_active), slice_from(prioritized, _max_active - 1)>>

\* spill_paths cutting the active paths only: spilled paths stay spilled
spill_paths_nopromote(act, sp) ==
    LET prioritized == prioritize_paths(act)
    IN <<slice_to(prioritized, _max_active), slice_from(prioritized, _max_active) \o sp>>

\* returns <<new_active, new_spilled>>
spill_paths(act, sp) ==
    LET prioritized == prioritize_paths(act \o sp)
    IN <<slice_to(prioritized, _max_active), slice_from(prioritized, _max_active)>>

\* ---- tick: the body of the loops ----------------------------------------
\* st is [deadended, errored, new_active, calls, fault]

\* the loop body appending the path itself whatever _save_deadends says
classify_keep(p, r, st) ==
    LET e1 == IF r.errored
              THEN [st EXCEPT !.errored = Append(@, p),
                              !.calls = suspend_path(p, @)]
              ELSE st
        e2 == IF Len(r.successors) = 0
              THEN IF _save_deadends
                   THEN [e1 EXCEPT !.deadended = Append(@, FullPath(p)),
                                   !.calls = suspend_path(p, @)]
                   ELSE [e1 EXCEPT !.deadended = Append(@, FullPath(p))]
              ELSE e1
    IN [e2 EXCEPT !.new_active = @ \o r.successors]

\* the sequential branch's loop body, after successors = self.tick_path(p)
classify_seq(p, r, st) ==
    LET e1 == IF r.errored
              THEN [st EXCEPT !.errored = Append(@, p),
                              !.calls = suspend_path(p, @)]
              ELSE st
        e2 == IF Len(r.successors) = 0
              THEN IF _save_deadends
                   THEN [e1 EXCEPT !.deadended = Append(@, FullPath(p)),
                                   !.calls = suspend_path(p, @)]
                   ELSE [e1 EXCEPT !.deadended = Append(@, Backtrace(p))]
              ELSE e1
    IN [e2 EXCEPT !.new_active = @ \o r.successors]

\* the loop body with elif in place of the second if
classify_elif(p, r, st) ==
    LET e1 == IF r.errored
              THEN [st EXCEPT !.errored = Append(@, p),
                              !.calls = suspend_path(p, @)]
              ELSE IF Len(r.successors) = 0
                   THEN IF _save_deadends
                        THEN [st EXCEPT !.deadended = Append(@, FullPath(p)),
                                        !.calls = suspend_path(p, @)]
                        ELSE [st EXCEPT !.deadended = Append(@, Backtrace(p))]
                   ELSE st
    IN [e1 EXCEPT !.new_active = @ \o r.successors]

\* the parallel branch's loop body, after successors = future.result()
classify_par(p, r, st) ==
    LET e1 == IF r.errored
              THEN [st EXCEPT !.errored = Append(@, p),
                              !.calls = suspend_path(p, @)]
              ELSE st
        e2 == IF Len(r.successors) = 0
              THEN IF _save_deadends
                   THEN [e1 EXCEPT !.deadended = Append(@, FullPath(p)),
                                   !.calls = suspend_path(p, @)]
                   ELSE [e1 EXCEPT !.deadended = Append(@, Backtrace(p))]
              ELSE e1
    IN [e2 EXCEPT !.new_active = @ \o r.successors]

\* for p in self.active: ... ; stops where tick_path raises
RECURSIVE tick_loop(_, _, _)
tick_loop(paths, i, st) ==
    IF i > Len(paths) THEN st
    ELSE LET r == tick_path(paths[i])
         IN IF r.fault THEN [st EXCEPT !.fault = TRUE]
            ELSE tick_loop(paths, i + 1, classify_seq(paths[i], r, st))

TickState(dd, er, log) ==
    [deadended |-> dd, errored |-> er, new_active |-> <<>>, calls |-> log, fault |-> FALSE]

\* ---- construction -------------------------------------------------------
default(arg, d) == IF arg = None THEN d ELSE arg[1]

\* the pickle_paths / save_deadends arguments tried: both left out, both given
Options ==
    {[pickle_paths |-> None, save_deadends |-> None],
     [pickle_paths |-> Some(TRUE), save_deadends |-> Some(FALSE)]}

\* Surveyor.__init__: no argument is validated. A negative max_active is tried
\* on projects that are not parallel.
Init ==
    \E parallel \in BOOLEAN,
       mc \in {None} \cup {Some(k) : k \in 0..MaxConcurrencyArg},
       opt \in Options,
       k \in 1..MaxSeeds,
       c \in Programs :
      \E ma \in {None} \cup {Some(a) : a \in (IF parallel THEN 0 ELSE 0 - 1)..MaxActiveArg} :
        /\ _max_concurrency = IF parallel THEN default(mc, CpuCount) ELSE 1
        /\ _max_active = default(ma, CpuCount)
        /\ _pickle_paths = default(opt.pickle_paths, FALSE)
        /\ _save_deadends = default(opt.save_deadends, TRUE)
        /\ nseeds = k
        /\ prog = c
        /\ active = [i \in 1..k |-> <<i>>]
        /\ deadended = <<>>
        /\ spilled = <<>>
        /\ errored = <<>>
        /\ suspended = <<>>
        /\ _current_step = 0
        /\ STOP_RUNS = FALSE
        /\ PAUSE_RUNS = FALSE
        /\ pc = "idle"
        /\ n = None
        /\ futures = <<>>
        /\ new_active = <<>>
        /\ raised = FALSE
        /\ calls = <<>>
        /\ pre = [active |-> <<>>, deadended |-> <<>>, errored |-> <<>>]
        /\ last_exit = "none"
        /\ faults = 0
        /\ stop_at = None
        /\ entry = None

\* ---- the flags ----------------------------------------------------------
StepPhases == {"tick", "as_completed", "filter", "spill", "post_tick"}

stop_analyses ==
    /\ STOP_RUNS' = TRUE
    /\ stop_at' = IF ~STOP_RUNS /\ pc \in StepPhases
                  THEN Some(_current_step) ELSE stop_at
    /\ UNCHANGED <<cfg_vars, list_vars, _current_step, PAUSE_RUNS, pc, n,
                   pool_vars, calls, pre, last_exit, entry, faults>>

resume_analyses ==
    /\ STOP_RUNS' = FALSE
    /\ stop_at' = None
    /\ entry' = IF entry = None THEN None ELSE Some([entry[1] EXCEPT !.stop = FALSE])
    /\ UNCHANGED <<cfg_vars, list_vars, _current_step, PAUSE_RUNS, pc, n,
                   pool_vars, calls, pre, last_exit, faults>>

enable_singlestep ==
    /\ PAUSE_RUNS' = TRUE
    /\ UNCHANGED <<cfg_vars, list_vars, _current_step, STOP_RUNS, pc, n,
                   pool_vars, calls, pre, last_exit, entry, faults, stop_at>>

disable_singlestep ==
    /\ PAUSE_RUNS' = FALSE
    /\ UNCHANGED <<cfg_vars, list_vars, _current_step, STOP_RUNS, pc, n,
                   pool_vars, calls, pre, last_exit, entry, faults, stop_at>>

\* ---- calls and returns --------------------------------------------------
\* the call in progress returns to its caller
Return(how) ==
    /\ pc' = "idle"
    /\ n' = None
    /\ last_exit' = how
    /\ entry' = None

\* a fault leaves tick(), step() and run()
Raise ==
    /\ Return("fault")
    /\ faults' = faults + 1

\* step() starts: pre_tick() does nothing, tick() is next
EnterStep ==
    /\ pc' = "tick"
    /\ pre' = [active |-> active, deadended |-> deadended, errored |-> errored]

\* run(n) counting its own steps from zero
RunCall_restarts_count ==
    /\ pc = "idle"
    /\ faults < MaxFaults
    /\ \E arg \in {None} \cup {Some(k) : k \in 0..MaxN} : n' = arg
    /\ pc' = "loop"
    /\ last_exit' = IF last_exit = "stopped" /\ ~STOP_RUNS THEN "resuming" ELSE "none"
    /\ stop_at' = None
    /\ entry' = Some([n |-> n', step |-> 0, stop |-> STOP_RUNS])
    /\ _current_step' = 0
    /\ UNCHANGED <<cfg_vars, list_vars, STOP_RUNS, PAUSE_RUNS,
                   pool_vars, calls, pre, faults>>

\* someone calls run(n)
RunCall ==
    /\ pc = "idle"
    /\ faults < MaxFaults
    /\ \E arg \in {None} \cup {Some(k) : k \in 0..MaxN} : n' = arg
    /\ pc' = "loop"
    /\ last_exit' = IF last_exit = "stopped" /\ ~STOP_RUNS THEN "resuming" ELSE "none"
    /\ stop_at' = None
    /\ entry' = Some([n |-> n', step |-> _current_step, stop |-> STOP_RUNS])
    /\ UNCHANGED <<cfg_vars, list_vars, _current_step, STOP_RUNS, PAUSE_RUNS,
                   pool_vars, calls, pre, faults>>

\* the loop test with STOP_RUNS tested before the step
LoopTest_polls_stop ==
    /\ pc = "loop"
    /\ IF ~done(active) /\ (n = None \/ n[1] > 0) /\ ~STOP_RUNS
       THEN /\ EnterStep
            /\ UNCHANGED <<n, last_exit, entry>>
       ELSE /\ Return(IF done(active) THEN "done"
                      ELSE IF STOP_RUNS THEN "stopped" ELSE "budget")
            /\ UNCHANGED pre
    /\ UNCHANGED <<cfg_vars, list_vars, _current_step, STOP_RUNS, PAUSE_RUNS,
                   pool_vars, calls, faults, stop_at>>

\* while not self.done and (n is None or n > 0)
LoopTest ==
    /\ pc = "loop"
    /\ IF ~done(active) /\ (n = None \/ n[1] > 0)
       THEN /\ EnterStep
            /\ UNCHANGED <<n, last_exit, entry>>
       ELSE /\ Return(IF done(active) THEN "done" ELSE "budget")
            /\ UNCHANGED pre
    /\ UNCHANGED <<cfg_vars, list_vars, _current_step, STOP_RUNS, PAUSE_RUNS,
                   pool_vars, calls, faults, stop_at>>

\* ---- tick ---------------------------------------------------------------
\* tick() with self._max_concurrency <= 1
TickSequential ==
    /\ pc = "tick"
    /\ ~(_max_concurrency > 1)
    /\ LET res == tick_loop(active, 1, TickState(deadended, errored, calls))
       IN /\ deadended' = res.deadended
          /\ errored' = res.errored
          /\ calls' = res.calls
          /\ IF res.fault
             THEN /\ Raise
                  /\ UNCHANGED active
             ELSE /\ active' = res.new_active
                  /\ pc' = "filter"
                  /\ UNCHANGED <<n, last_exit, entry, faults>>
    /\ UNCHANGED <<cfg_vars, spilled, suspended, _current_step, STOP_RUNS, PAUSE_RUNS,
                   pool_vars, pre, stop_at>>

\* tick() with self._max_concurrency > 1: one future per active path
TickSubmit ==
    /\ pc = "tick"
    /\ _max_concurrency > 1
    /\ futures' = [i \in 1..Len(active) |-> [path |-> active[i], state |-> "pending"]]
    /\ new_active' = <<>>
    /\ raised' = FALSE
    /\ pc' = "as_completed"
    /\ UNCHANGED <<cfg_vars, list_vars, _current_step, STOP_RUNS, PAUSE_RUNS, n,
                   calls, pre, last_exit, entry, faults, stop_at>>

\* futures whose task is still queued or running in the pool
Outstanding == {i \in DOMAIN futures : futures[i].state = "pending"}

\* a worker thread's tick_path(p) ends, with a result or an exception
WorkerFinish ==
    /\ \E i \in DOMAIN futures :
         /\ futures[i].state = "pending"
         /\ futures' = [futures EXCEPT ![i].state = "done"]
    /\ UNCHANGED <<cfg_vars, list_vars, _current_step, STOP_RUNS, PAUSE_RUNS, pc, n,
                   new_active, raised, calls, pre, last_exit, entry, faults, stop_at>>

\* the iteration with self.active = new_active inside the loop
Collect_assigns_active(i) ==
    /\ pc = "as_completed"
    /\ ~raised
    /\ futures[i].state = "done"
    /\ LET p == futures[i].path
           r == tick_path(p)
           st == classify_par(p, r, [TickState(deadended, errored, calls)
                                       EXCEPT !.new_active = new_active])
       IN IF r.fault
          THEN /\ raised' = TRUE
               /\ UNCHANGED <<futures, new_active, deadended, errored, calls, active>>
          ELSE /\ futures' = [futures EXCEPT ![i].state = "collected"]
               /\ deadended' = st.deadended
               /\ errored' = st.errored
               /\ calls' = st.calls
               /\ new_active' = st.new_active
               /\ active' = st.new_active
               /\ UNCHANGED raised
    /\ UNCHANGED <<cfg_vars, spilled, suspended, _current_step, STOP_RUNS,
                   PAUSE_RUNS, pc, n, pre, last_exit, entry, faults, stop_at>>

\* one iteration of: for future in as_completed(future_to_path)
Collect(i) ==
    /\ pc = "as_completed"
    /\ ~raised
    /\ futures[i].state = "done"
    /\ LET p == futures[i].path
           r == tick_path(p)
           st == classify_par(p, r, [TickState(deadended, errored, calls)
                                       EXCEPT !.new_active = new_active])
       IN IF r.fault
          THEN /\ raised' = TRUE
               /\ UNCHANGED <<futures, new_active, deadended, errored, calls>>
          ELSE /\ futures' = [futures EXCEPT ![i].state = "collected"]
               /\ deadended' = st.deadended
               /\ errored' = st.errored
               /\ calls' = st.calls
               /\ new_active' = st.new_active
               /\ UNCHANGED raised
    /\ UNCHANGED <<cfg_vars, active, spilled, suspended, _current_step, STOP_RUNS,
                   PAUSE_RUNS, pc, n, pre, last_exit, entry, faults, stop_at>>

TickCollect == \E i \in DOMAIN futures : Collect(i)

\* the with block ending without waiting: shutdown(wait=False)
TickJoin_nowait ==
    /\ pc = "as_completed"
    /\ raised \/ \A i \in DOMAIN futures : futures[i].state = "collected"
    /\ new_active' = <<>>
    /\ raised' = FALSE
    /\ UNCHANGED futures
    /\ IF raised
       THEN /\ Raise
            /\ UNCHANGED active
       ELSE /\ active' = new_active
            /\ pc' = "filter"
            /\ UNCHANGED <<n, last_exit, entry, faults>>
    /\ UNCHANGED <<cfg_vars, deadended, spilled, errored, suspended, _current_step,
                   STOP_RUNS, PAUSE_RUNS, calls, pre, stop_at>>

\* the with block ends: executor.shutdown(wait=True), then the exception
\* goes on, or self.active = new_active
TickJoin ==
    /\ pc = "as_completed"
    /\ raised \/ \A i \in DOMAIN futures : futures[i].state = "collected"
    /\ Outstanding = {}
    /\ new_active' = <<>>
    /\ raised' = FALSE
    /\ UNCHANGED futures
    /\ IF raised
       THEN /\ Raise
            /\ UNCHANGED active
       ELSE /\ active' = new_active
            /\ pc' = "filter"
            /\ UNCHANGED <<n, last_exit, entry, faults>>
    /\ UNCHANGED <<cfg_vars, deadended, spilled, errored, suspended, _current_step,
                   STOP_RUNS, PAUSE_RUNS, calls, pre, stop_at>>

\* ---- filter, spill, the end of a step -----------------------------------
Filter ==
    /\ pc = "filter"
    /\ active' = filter_paths(active)
    /\ pc' = "spill"
    /\ UNCHANGED <<cfg_vars, deadended, spilled, errored, suspended, _current_step,
                   STOP_RUNS, PAUSE_RUNS, n, pool_vars, calls, pre, last_exit, entry,
                   faults, stop_at>>

\* spill() suspending every path of new_spilled, also those spilled before
Spill_suspends_all ==
    /\ pc = "spill"
    /\ LET new == spill_paths(active, spilled)
           resumed == SelectSeq(new[1], LAMBDA p : InList(p, spilled))
           suspending == new[2]
       IN /\ calls' = calls \o [i \in DOMAIN resumed |-> ResumeCall(resumed[i])]
                            \o [i \in DOMAIN suspending |-> SuspendCall(suspending[i])]
          /\ active' = new[1]
          /\ spilled' = new[2]
    /\ pc' = "post_tick"
    /\ UNCHANGED <<cfg_vars, deadended, errored, suspended, _current_step, STOP_RUNS,
                   PAUSE_RUNS, n, pool_vars, pre, last_exit, entry, faults, stop_at>>

\* Surveyor.spill
Spill ==
    /\ pc = "spill"
    /\ LET new == spill_paths(active, spilled)
           resumed == SelectSeq(new[1], LAMBDA p : InList(p, spilled))
           suspending == SelectSeq(new[2], LAMBDA p : InList(p, active))
       IN /\ calls' = calls \o [i \in DOMAIN resumed |-> ResumeCall(resumed[i])]
                            \o [i \in DOMAIN suspending |-> SuspendCall(suspending[i])]
          /\ active' = new[1]
          /\ spilled' = new[2]
    /\ pc' = "post_tick"
    /\ UNCHANGED <<cfg_vars, deadended, errored, suspended, _current_step, STOP_RUNS,
                   PAUSE_RUNS, n, pool_vars, pre, last_exit, entry, faults, stop_at>>

\* post_tick() does nothing; self._current_step += 1; step() returns to run()
PostTick ==
    /\ pc = "post_tick"
    /\ _current_step' = _current_step + 1
    /\ pc' = "check_stop"
    /\ UNCHANGED <<n, last_exit, entry>>
    /\ UNCHANGED <<cfg_vars, list_vars, STOP_RUNS, PAUSE_RUNS, pool_vars, calls, pre,
                   faults, stop_at>>

\* ---- the rest of run()'s loop body --------------------------------------
\* the loop body without the decrement of n
dec_n_keep(m) == m

\* if n is not None: n -= 1
dec_n(m) == IF m # None THEN Some(m[1] - 1) ELSE m

\* the stop test with continue in place of break
CheckStop_continue ==
    /\ pc = "check_stop"
    /\ IF STOP_RUNS
       THEN /\ pc' = "loop"
            /\ UNCHANGED <<n, last_exit, entry>>
       ELSE /\ pc' = "check_pause"
            /\ UNCHANGED <<n, last_exit, entry>>
    /\ UNCHANGED <<cfg_vars, list_vars, _current_step, STOP_RUNS, PAUSE_RUNS,
                   pool_vars, calls, pre, faults, stop_at>>

\* if STOP_RUNS: ... break
CheckStop ==
    /\ pc = "check_stop"
    /\ IF STOP_RUNS
       THEN Return("stopped")
       ELSE /\ pc' = "check_pause"
            /\ UNCHANGED <<n, last_exit, entry>>
    /\ UNCHANGED <<cfg_vars, list_vars, _current_step, STOP_RUNS, PAUSE_RUNS,
                   pool_vars, calls, pre, faults, stop_at>>

\* the loop body without the PAUSE_RUNS test
CheckPause_skip ==
    /\ pc = "check_pause"
    /\ pc' = "loop"
    /\ n' = dec_n(n)
    /\ UNCHANGED <<cfg_vars, list_vars, _current_step, STOP_RUNS, PAUSE_RUNS,
                   pool_vars, calls, pre, last_exit, entry, faults, stop_at>>

\* if PAUSE_RUNS: ... pdb.set_trace()
CheckPause ==
    /\ pc = "check_pause"
    /\ IF PAUSE_RUNS
       THEN /\ pc' = "pdb"
            /\ UNCHANGED n
       ELSE /\ pc' = "loop"
            /\ n' = dec_n(n)
    /\ UNCHANGED <<cfg_vars, list_vars, _current_step, STOP_RUNS, PAUSE_RUNS,
                   pool_vars, calls, pre, last_exit, entry, faults, stop_at>>

\* the person at the debugger lets the loop go on
PdbContinue ==
    /\ pc = "pdb"
    /\ pc' = "loop"
    /\ n' = dec_n(n)
    /\ UNCHANGED <<cfg_vars, list_vars, _current_step, STOP_RUNS, PAUSE_RUNS,
                   pool_vars, calls, pre, last_exit, entry, faults, stop_at>>

Next ==
    \/ stop_analyses
    \/ resume_analyses
    \/ enable_singlestep
    \/ disable_singlestep
    \/ RunCall
    \/ LoopTest
    \/ TickSequential
    \/ TickSubmit
    \/ WorkerFinish
    \/ TickCollect
    \/ TickJoin
    \/ Filter
    \/ Spill
    \/ PostTick
    \/ CheckStop
    \/ CheckPause
    \/ PdbContinue

Spec == Init /\ [][Next]_vars

\* ---- what the properties below speak of ---------------------------------
\* the driver is between two steps
Boundary == pc \in {"idle", "loop", "check_stop", "check_pause", "pdb"}

Elems(s) == {s[i] : i \in DOMAIN s}

\* the paths the current tick has appended to errored / deadended so far
ErroredInTick == {errored[i] : i \in (Len(pre.errored) + 1)..Len(errored)}
DeadendedInTick == {deadended[i][2] : i \in (Len(pre.deadended) + 1)..Len(deadended)}

\* the paths deadended holds
DeadendedPaths == {deadended[i][2] : i \in DOMAIN deadended}

NoRepeat(s) == \A i, j \in DOMAIN s : i # j => s[i] # s[j]

\* C1: immediately after spill() returns, active holds at most maxActive
\* states, for any configured maxActive.
C1_SpillCap == pc = "post_tick" => Len(active) <= _max_active

\* C2: at every step boundary active, spilled and suspended are pairwise
\* disjoint: no path is in two of them.
C2_Disjoint ==
    Boundary =>
        /\ Elems(active) \cap Elems(spilled) = {}
        /\ Elems(active) \cap Elems(suspended) = {}
        /\ Elems(spilled) \cap Elems(suspended) = {}

\* a boundary after a step that left paths both active and spilled
C2_Witness ==
    /\ pc = "check_stop"
    /\ _current_step > 0
    /\ Len(active) > 0
    /\ Len(spilled) > 0

\* C3: once STOP_RUNS has become true inside a step of run() (and is not
\* cleared again), run() is still in that step, or at the stop test right
\* after it, or has returned after exactly that step; it never goes on to
\* the pause test, the budget or another loop test. A collaborator fault in
\* that step ends run() before the step is complete.
C3_StopEndsRun ==
    stop_at # None =>
        /\ STOP_RUNS
        /\ pc \in StepPhases \cup {"check_stop", "idle"}
        /\ pc \in StepPhases => _current_step = stop_at[1]
        /\ pc = "check_stop" => _current_step = stop_at[1] + 1
        /\ pc = "idle" =>
              \/ last_exit = "stopped" /\ _current_step = stop_at[1] + 1
              \/ last_exit = "fault" /\ _current_step = stop_at[1]

\* run() has returned because of a stop requested inside its last step,
\* with paths still active
C3_Witness ==
    /\ pc = "idle"
    /\ last_exit = "stopped"
    /\ stop_at # None
    /\ ~done(active)

\* C4: after a fault has left run(), no path the faulting tick had already
\* put into deadended or errored is still in active.
C4_ArchivedLeftActive ==
    (pc = "idle" /\ last_exit = "fault") =>
        \A p \in ErroredInTick \cup DeadendedInTick : ~InList(p, active)

\* ---- the sequential tick as one function, and whole steps ---------------
SameContents(s, t) ==
    /\ Elems(s) = Elems(t)
    /\ \A x \in Elems(s) :
         Cardinality({i \in DOMAIN s : s[i] = x}) = Cardinality({i \in DOMAIN t : t[i] = x})

\* what the sequential branch of tick() makes of the lists the tick started on
SequentialTick == tick_loop(pre.active, 1, TickState(pre.deadended, pre.errored, <<>>))

C6_ArchivedIsTerminal ==
    /\ NoRepeat(deadended)
    /\ NoRepeat(errored)
    /\ pc = "tick" =>
          (DeadendedPaths \cup Elems(errored)) \cap (Elems(active) \cup Elems(spilled)) = {}

\* one whole step in sequential mode: tick, filter, spill, count
step_lists(st) ==
    LET t == tick_loop(st.active, 1, TickState(st.deadended, st.errored, <<>>))
        sp == spill_paths(filter_paths(t.new_active), st.spilled)
    IN [active |-> sp[1], spilled |-> sp[2], deadended |-> t.deadended,
        errored |-> t.errored]

\* the lists after k steps of one uninterrupted run() from construction
RECURSIVE Uninterrupted(_)
Uninterrupted(k) ==
    IF k = 0
    THEN [active |-> [i \in 1..nseeds |-> <<i>>], spilled |-> <<>>,
          deadended |-> <<>>, errored |-> <<>>]
    ELSE step_lists(Uninterrupted(k - 1))

\* C7: in sequential mode, however often run() was stopped by STOP_RUNS (or
\* ran out of budget) and was called again, between steps the lists are
\* those of one uninterrupted run after _current_step steps. (Up to the
\* first collaborator fault: an uninterrupted run ends there.)
C7_Resumable ==
    (Boundary /\ ~(_max_concurrency > 1) /\ faults = 0) =>
        [active |-> active, spilled |-> spilled, deadended |-> deadended,
         errored |-> errored] = Uninterrupted(_current_step)

\* a run() that follows a stopped one, the flag cleared in between, has
\* completed a step of its own
C7_Witness ==
    /\ pc = "check_stop"
    /\ last_exit = "resuming"
    /\ ~(_max_concurrency > 1)
    /\ faults = 0
    /\ _current_step > 1
    /\ Len(deadended) + Len(errored) > 0

\* what t holds after the entries of s
Appended(s, t) == {t[i] : i \in (Len(s) + 1)..Len(t)}
Extends(s, t) == Len(s) <= Len(t) /\ SubSeq(t, 1, Len(s)) = s

\* the paths whose future has completed
CompletedPaths == {futures[i].path : i \in {j \in DOMAIN futures : futures[j].state # "pending"}}

\* C8: while a task of the parallel tick is still queued or running, the
\* scheduler thread changes none of the lists and suspends no path.
C8_NoMutationWhileOutstanding ==
    [][Outstanding # {} => UNCHANGED <<list_vars, calls>>]_vars

\* C8, amended: while a task is still queued or running, active, spilled and
\* suspended are left alone, and deadended, errored and the suspend calls
\* only grow, by paths whose own task has completed.
C8_OnlyCompletedClassified ==
    [][Outstanding # {} =>
          /\ UNCHANGED <<active, spilled, suspended>>
          /\ Extends(deadended, deadended')
          /\ Extends(errored, errored')
          /\ Extends(calls, calls')
          /\ \A e \in Appended(deadended, deadended') : e[2] \in CompletedPaths
          /\ \A p \in Appended(errored, errored') : p \in CompletedPaths
          /\ \A c \in Appended(calls, calls') : c.op = "suspend" /\ c.path \in CompletedPaths
      ]_vars

\* the loop has archived a path while another task is still outstanding
C8_Witness ==
    /\ pc = "as_completed"
    /\ Outstanding # {}
    /\ Len(deadended) + Len(errored) > Len(pre.deadended) + Len(pre.errored)

\* C9: outside the with block of the parallel tick no submitted task is
\* queued or running: tick() returns, and a fault leaves it, only after
\* every task has ended.
C9_JoinedBeforeLeaving == pc # "as_completed" => Outstanding = {}

\* a fault has been raised in the loop while another task is outstanding:
\* the with block is waiting
C9_Witness ==
    /\ pc = "as_completed"
    /\ raised
    /\ Outstanding # {}

\* C10: a Surveyor whose max_active or max_concurrency is not positive never
\* gets to perform a step.
C10_FailFast ==
    (_max_active <= 0 \/ _max_concurrency <= 0) =>
        (pc \notin StepPhases /\ _current_step = 0)

\* ---- run(n) and the step counter ----------------------------------------
\* the steps the call in progress has completed
RunSteps == _current_step - entry[1].step

\* C11: run(n) with a number n completes at most n steps; it returns only
\* when done holds, or n steps are completed, or STOP_RUNS was found true
\* right after a step; _current_step never decreases, and it changes only
\* by one, at the end of a step that ran through (a step a fault leaves
\* does not count).
C11_RunBudget ==
    [][/\ \/ _current_step' = _current_step
          \/ _current_step' = _current_step + 1 /\ pc = "post_tick"
       /\ (pc = "post_tick" /\ pc' # pc) => _current_step' = _current_step + 1
       /\ (entry # None /\ entry[1].n # None) => RunSteps <= entry[1].n[1]
       /\ (entry' # None /\ entry'[1].n # None) =>
              _current_step' - entry'[1].step <= entry'[1].n[1]
       /\ (pc # "idle" /\ pc' = "idle" /\ last_exit' # "fault") =>
              \/ done(active)
              \/ entry[1].n # None /\ RunSteps = entry[1].n[1]
              \/ pc = "check_stop" /\ STOP_RUNS
      ]_vars

\* run(1) has completed its one step and is about to return with paths
\* still active and no stop requested
C11_Witness ==
    /\ pc = "loop"
    /\ entry # None
    /\ entry[1].n = Some(1)
    /\ RunSteps = 1
    /\ ~done(active)
    /\ ~STOP_RUNS

\* C12: with _save_deadends false every entry of deadended is a backtrace,
\* never the path itself.
C12_BacktraceOnly ==
    ~_save_deadends => \A i \in DOMAIN deadended : deadended[i][1] = "backtrace"

\* paths have deadended, in more than one tick, with _save_deadends false
C12_Witness ==
    /\ ~_save_deadends
    /\ Len(pre.deadended) > 0
    /\ Len(deadended) > Len(pre.deadended)

\* ---- the pause -----------------------------------------------------------
\* pdb.set_trace() is entered only from the PAUSE_RUNS test, which only
\* follows the STOP_RUNS test, which only follows the end of a whole step;
\* from the debugger the loop goes to its next test
PauseOnlyBetweenSteps ==
    /\ (pc' = "pdb" /\ pc # "pdb") =>
           (pc = "check_pause" /\ PAUSE_RUNS /\ RunSteps >= 1 /\ Outstanding = {})
    /\ (pc' = "check_pause" /\ pc # "check_pause") => pc = "check_stop"
    /\ (pc' = "check_stop" /\ pc # "check_stop") =>
           (pc = "post_tick" /\ _current_step' = _current_step + 1)
    /\ (pc = "pdb" /\ pc' # "pdb") => pc' = "loop"

\* C13: with PAUSE_RUNS true, run() enters the debugger only between two
\* steps, never inside one, and it does so after each step of the run that
\* ran through.
C13_PauseAfterEachStep ==
    [][/\ PauseOnlyBetweenSteps
       /\ (pc = "check_stop" /\ PAUSE_RUNS /\ pc' # pc) => pc' = "check_pause"
       /\ (pc = "check_pause" /\ PAUSE_RUNS /\ pc' # pc) => pc' = "pdb"
      ]_vars

\* C13, amended: with PAUSE_RUNS true, run() enters the debugger only between
\* two steps, never inside one, and it does so after each step that ran
\* through unless STOP_RUNS is found true after that step: then run()
\* returns without entering the debugger.
C13_PauseUnlessStopped ==
    [][/\ PauseOnlyBetweenSteps
       /\ (pc = "check_stop" /\ PAUSE_RUNS /\ pc' # pc) =>
              IF STOP_RUNS THEN pc' = "idle" /\ last_exit' = "stopped"
              ELSE pc' = "check_pause"
       /\ (pc = "check_pause" /\ PAUSE_RUNS /\ pc' # pc) => pc' = "pdb"
      ]_vars

\* run() is in the debugger after its second step, paths still active
C13_Witness ==
    /\ pc = "pdb"
    /\ PAUSE_RUNS
    /\ RunSteps = 2
    /\ ~done(active)

\* ---- what a tick that returns has done ----------------------------------
\* every successor of every path the tick started on
SuccessorsOf(paths) == UNION {Elems(continue_path(p).successors) : p \in Elems(paths)}

\* C14: when tick() returns, active holds exactly the successors of the
\* paths that were active, each once, and none of those paths; each of those
\* paths that has error exits is in errored, with successors or without;
\* each with no successor is in deadended; one with no error exit and a
\* successor is in neither list.
C14_TickClassifies ==
    pc = "filter" =>
        /\ Elems(active) = SuccessorsOf(pre.active)
        /\ NoRepeat(active)
        /\ Elems(active) \cap Elems(pre.active) = {}
        /\ \A p \in Elems(pre.active) :
             LET r == continue_path(p)
             IN /\ r.errored => p \in ErroredInTick
                /\ Len(r.successors) = 0 => p \in DeadendedInTick
                /\ (~r.errored /\ Len(r.successors) > 0) =>
                       (~InList(p, errored) /\ p \notin DeadendedPaths)

\* a tick has returned that started on a path with error exits and two
\* successors and on a path with no successor
C14_Witness ==
    /\ pc = "filter"
    /\ \E p, q \in Elems(pre.active) :
         /\ continue_path(p).errored
         /\ Len(continue_path(p).successors) = 2
         /\ Len(continue_path(q).successors) = 0

\* ---- spill() ------------------------------------------------------------
\* the calls an action adds to the log, as a list
NewCalls == SubSeq(calls', Len(calls) + 1, Len(calls'))

\* the paths on which NewCalls has a call of the given kind
CalledOn(op) == {NewCalls[i].path : i \in {j \in DOMAIN NewCalls : NewCalls[j].op = op}}

\* C15: spill() calls resume on exactly the paths that are in the new active
\* list and were in spilled, calls suspend(do_pickle=_pickle_paths) on exactly
\* the paths that are in the new spilled list and were in active, each once,
\* and makes no other such call.
C15_SpillCalls ==
    [][(pc = "spill" /\ pc' = "post_tick") =>
          /\ Extends(calls, calls')
          /\ CalledOn("resume") = Elems(active') \cap Elems(spilled)
          /\ CalledOn("suspend") = Elems(spilled') \cap Elems(active)
          /\ Len(NewCalls) = Cardinality(CalledOn("resume")) + Cardinality(CalledOn("suspend"))
          /\ \A i \in DOMAIN NewCalls :
               NewCalls[i].op = "suspend" => NewCalls[i].do_pickle = _pickle_paths
      ]_vars

\* spill() has just resumed a path that an earlier spill() had suspended,
\* and other paths stay spilled
C15_Witness ==
    /\ pc = "post_tick"
    /\ Len(spilled) > 0
    /\ Len(calls) > 1
    /\ calls[Len(calls)].op = "resume"
    /\ InList(calls[Len(calls)].path, active)
    /\ \E i \in 1..(Len(calls) - 1) :
         /\ calls[i].op = "suspend"
         /\ calls[i].path = calls[Len(calls)].path

\* the first k entries of s (none for k <= 0), and the entries after them
FirstN(s, k) == [i \in 1..Max(0, Min(k, Len(s))) |-> s[i]]
AfterN(s, k) ==
    LET k0 == Max(0, Min(k, Len(s)))
    IN [i \in 1..(Len(s) - k0) |-> s[i + k0]]

\* C16: with the default comparator spill() only cuts active + spilled in
\* two: the new active list is its first _max_active entries, in the order
\* they had, the new spilled list is the rest, in order; so a path that was
\* spilled becomes active only if fewer than _max_active paths were active.
C16_PlainTruncation ==
    [][(pc = "spill" /\ pc' = "post_tick") =>
          LET cat == active \o spilled
          IN /\ active' = FirstN(cat, _max_active)
             /\ spilled' = AfterN(cat, _max_active)
             /\ \A p \in Elems(active') \cap Elems(spilled) : Len(active) < _max_active
      ]_vars

\* C17: with _max_active >= 1, between steps and after at least one whole
\* step, no path is spilled when no path is active: done is never true
\* while spilled paths wait.
C17_DoneMeansNoneSpilled ==
    (_max_active >= 1 /\ Boundary /\ _current_step >= 1 /\ done(active)) =>
        Len(spilled) = 0

\* the analysis is done after paths had been spilled and resumed
C17_Witness ==
    /\ _max_active >= 1
    /\ pc = "check_stop"
    /\ done(active)
    /\ Len(spilled) = 0
    /\ \E i \in DOMAIN calls : calls[i].op = "resume"

\* ---- a run() called with STOP_RUNS true -----------------------------------
\* C19: STOP_RUNS is read only after a step. A run() called with STOP_RUNS
\* true (and left true), done false and n left out or positive starts a
\* step at once, and returns from the stop test right after that one step:
\* it completes exactly one step. (A fault in that step leaves run() by an
\* exception instead.)
C19_OneStepThenStop ==
    [][(entry # None /\ entry[1].stop) =>
          /\ STOP_RUNS
          /\ pc \in {"loop"} \cup StepPhases => RunSteps = 0
          /\ pc = "check_stop" => RunSteps = 1
          /\ pc \notin {"check_pause", "pdb"}
          /\ (pc = "loop" /\ pc' # pc /\ ~done(active) /\ (n = None \/ n[1] > 0)) =>
                 pc' = "tick"
          /\ (pc # "idle" /\ pc' = "idle" /\ last_exit' # "fault") =>
                 IF pc = "loop"
                 THEN RunSteps = 0 /\ (done(active) \/ n = Some(0))
                 ELSE pc = "check_stop" /\ last_exit' = "stopped"
                      /\ _current_step' = entry[1].step + 1
      ]_vars

\* a run() called with STOP_RUNS true is at the stop test after its one
\* step, paths still active
C19_Witness ==
    /\ pc = "check_stop"
    /\ entry # None
    /\ entry[1].stop
    /\ STOP_RUNS
    /\ RunSteps = 1
    /\ ~done(active)

\* ---- errored and deadended ----------------------------------------------
\* the suspend calls an action makes on p
SuspendsOf(p) ==
    Cardinality({j \in DOMAIN NewCalls : NewCalls[j].op = "suspend" /\ NewCalls[j].path = p})

\* the advance of p leaves error exits and no successor
ErrorsAndDeadends(p) ==
    continue_path(p).errored /\ Len(continue_path(p).successors) = 0

\* the paths a step of tick() classifies: all active ones for a sequential
\* tick that returns, the path of the future for an iteration of the
\* as_completed loop
Classified ==
    IF pc = "tick" /\ pc' = "filter" THEN Elems(active)
    ELSE IF pc = "as_completed"
    THEN {futures[i].path : i \in {j \in DOMAIN futures :
                                     futures[j].state = "done" /\ futures'[j].state = "collected"}}
    ELSE {}

\* C20: errored and deadended overlap. A path whose advance leaves error
\* exits and no successor is appended to errored and to deadended by the same
\* tick; with _save_deadends the path itself is in both and it is suspended
\* twice. And nothing is ever put into errored that had no error exits when
\* it was ticked.
C20_ErroredAndDeadended ==
    [][/\ \A p \in Classified : ErrorsAndDeadends(p) => p \in Appended(errored, errored')
       /\ \A p \in Appended(errored, errored') :
            /\ continue_path(p).errored
            /\ Len(continue_path(p).successors) = 0 =>
                 IF _save_deadends
                 THEN /\ FullPath(p) \in Appended(deadended, deadended')
                      /\ SuspendsOf(p) = 2
                 ELSE /\ Backtrace(p) \in Appended(deadended, deadended')
                      /\ SuspendsOf(p) = 1
      ]_vars

\* tick() has returned having put a path with error exits and no successor
\* into both lists, the path itself
C20_Witness ==
    /\ pc = "filter"
    /\ _save_deadends
    /\ \E p \in Elems(pre.active) :
         /\ ErrorsAndDeadends(p)
         /\ p \in ErroredInTick
         /\ p \in DeadendedInTick
         /\ \E i \in DOMAIN deadended : deadended[i] = FullPath(p)

\* ---- termination --------------------------------------------------------
\* a Surveyor with _max_active >= 1 on a collaborator that never raises
InitNoFault ==
    /\ Init
    /\ _max_active >= 1
    /\ \A l \in DOMAIN prog : ~prog[l].fault

\* what moves a run() on: the thread that called it, a task of the pool
\* ending, the person at the debugger continuing
Progress ==
    \/ LoopTest
    \/ TickSequential
    \/ TickSubmit
    \/ WorkerFinish
    \/ TickCollect
    \/ TickJoin
    \/ Filter
    \/ Spill
    \/ PostTick
    \/ CheckStop
    \/ CheckPause
    \/ PdbContinue

\* everything but stop_analyses / resume_analyses: STOP_RUNS stays false
NextNoStop ==
    \/ enable_singlestep
    \/ disable_singlestep
    \/ RunCall
    \/ Progress

\* The calling thread keeps running, each task handed to the pool ends (the
\* collaborator's advance returns), and pdb.set_trace() hands control back
\* when the person at the debugger continues: a run() that can move on does.
FairSpec == InitNoFault /\ [][NextNoStop]_vars /\ WF_vars(Progress)

\* every path of bounded depth
AllPaths == UNION {[1..d -> 1..Max(MaxSeeds, MaxSucc)] : d \in 1..MaxDepth}

\* the paths of the exploration tree: the seeds and, with each path, the
\* successors the collaborator gives for it
Tree ==
    {p \in AllPaths :
        /\ p[1] \in 1..nseeds
        /\ \A i \in 1..(Len(p) - 1) :
             p[i + 1] \in 1..Len(continue_path(SubSeq(p, 1, i)).successors)}

Leaves == {p \in Tree : Len(continue_path(p).successors) = 0}

\* run() has just been called with n left out, on a Surveyor with
\* _max_active >= 1 that has met no fault, STOP_RUNS false
CalledUnbounded ==
    /\ pc = "loop"
    /\ entry # None
    /\ entry[1].n = None
    /\ RunSteps = 0
    /\ _max_active >= 1
    /\ faults = 0
    /\ ~STOP_RUNS

\* run() has returned with done true, and deadended holds each leaf of the
\* tree once and nothing else
ReturnedDone ==
    /\ pc = "idle"
    /\ last_exit = "done"
    /\ done(active)
    /\ DeadendedPaths = Leaves
    /\ Len(deadended) = Cardinality(Leaves)

====
